---- MODULE Spec2Model ----
(***************************************************************************)
(* A model of the B2F session driver of wl2k-go (package fbb):             *)
(* Session.Exchange with its deferred error echo and close, the mailbox    *)
(* handler it consumes, and the peer at the other end of the connection.   *)
(*                                                                         *)
(* Exchange is modelled at the granularity of its blocking calls: entering *)
(* the call, Prepare, the handshake, one action per turn of the loop, and  *)
(* the exit of the loop.  The deferred functions of Exchange run inside    *)
(* the action that returns.  Every operation on the connection and every   *)
(* call of the mailbox handler made during the current Exchange call is    *)
(* appended to `trace`, in program order.                                  *)
(*                                                                         *)
(* The bodies of Session.handshake, Session.handleOutbound and            *)
(* Session.handleInbound follow the protocol description (sections 4.4.1   *)
(* and 4.4.2); their results (quit, err) range over every outcome.         *)
(* s.localFW (its first entry dropped under FW_AUX_ONLY_EXPERIMENT) is     *)
(* read by the handshake's ;FW: line only and is not represented.          *)
(*                                                                         *)
(* Four more specifications over the same variables model the proposal     *)
(* functions of package fbb (SpecProposal), mailbox.DirHandler (SpecDir),  *)
(* hamlib.TCPRig (SpecRig) and ax25.DialKenwood (SpecKw); each keeps the   *)
(* variables of the others at a fixed value.                               *)
(***************************************************************************)
EXTENDS Integers, Sequences, FiniteSets, TLC

\* ------------------------------------------------------------------ bounds

\* Exchange calls made on one Session.
MaxCalls == 2
\* Messages in the local outbox when the session is created.
MaxOut == 2
\* Messages the peer has pending for us.
MaxIn == 1

\* ------------------------------------------------------------ error values

\* The error values the session distinguishes (by errors.Is) and the kinds
\* of error it does not: a deadline timeout, any other I/O error of the
\* connection, a protocol error (malformed line, checksum mismatch, failed
\* secure login) and an error of the mailbox handler.
ConnLostKinds == {"EOF", "UnexpectedEOF", "ErrClosed"}
TransportKinds == ConnLostKinds \cup {"Timeout", "IOError"}
ErrKinds == TransportKinds \cup {"Protocol", "Mailbox"}

\* What a failed write and a failed read of the connection can return.
WriteErrs == TransportKinds
ReadErrs == TransportKinds \cup {"Protocol"}

\* What conn.Close() returns.
CloseResults == {"nil", "IOError", "ErrClosed"}

\* What MBoxHandler.Prepare returns: nil, or any error.
PrepareResults == {"nil"} \cup ErrKinds

\* The robust-mode settings.
RobustAuto == "RobustAuto"
RobustForced == "RobustForced"
RobustDisabled == "RobustDisabled"

\* ------------------------------------------------------------------ state

VARIABLES
    \* Session fields
    master,        \* s.master
    hNil,          \* s.h == nil
    robustMode,    \* s.robustMode
    quitSent,      \* s.quitSent
    quitReceived,  \* s.quitReceived
    remoteNoMsgs,  \* s.remoteNoMsgs
    trafficStats,  \* s.trafficStats
    \* The running Exchange call
    pc,            \* "idle" | "prepare" | "handshake" | "loop"
    callNo,        \* Exchange calls entered so far
    myTurn,        \* the loop variable of Exchange
    connRobust,    \* conn implements transport.Robust
    trace,         \* operations of the current call, in program order
    \* The last return of Exchange
    started,       \* the call got past the Done() check
    retStats,      \* the returned TrafficStats
    retErr,        \* the returned error ("nil" for nil)
    cause,         \* err as the deferred function found it, and where it arose
    \* Mailbox (handler side)
    outbox, sent, inbox, deferred,
    \* Peer
    peerPending,   \* MIDs the peer still has for us
    \* The other components, each with a specification of its own
    prop,          \* a call of sortProposals, precedence or parseProposal
    dir,           \* a DirHandler and the result of its last call
    rig,           \* a TCPRig and the cmd call running on it
    kw             \* a DialKenwood call and its workers

sessionVars == <<master, hNil, robustMode, quitSent, quitReceived,
                 remoteNoMsgs, trafficStats, pc, callNo, myTurn, connRobust,
                 trace, started, retStats, retErr, cause, outbox, sent, inbox,
                 deferred, peerPending>>

\* The components the session does not touch.
others == <<prop, dir, rig, kw>>

vars == <<sessionVars, others>>

sessionCfg == <<master, hNil, robustMode>>
mbox == <<outbox, sent, inbox, deferred>>
lastReturn == <<started, retStats, retErr, cause>>

\* ---------------------------------------------------------------- helpers

RECURSIVE SetToSeq(_)
\* The elements of a finite set of integers in ascending order.
SetToSeq(S) ==
    IF S = {} THEN <<>>
    ELSE LET m == CHOOSE x \in S : \A y \in S : x <= y
         IN <<m>> \o SetToSeq(S \ {m})

Range(s) == {s[i] : i \in 1..Len(s)}

Count(s, e) == Cardinality({i \in 1..Len(s) : s[i] = e})

Last(s) == s[Len(s)]

Min(a, b) == IF a <= b THEN a ELSE b

\* TrafficStats as NewSession makes it, and the zero value Exchange returns
\* when it does nothing (both hold no MIDs).
EmptyStats == [Received |-> <<>>, Sent |-> <<>>]

NoCause == [err |-> "nil", phase |-> "none"]

\* Operations on the connection and calls of the mailbox handler, as they
\* appear in trace.
ConnOps == {"Read", "Write", "SetDeadline", "ErrLine", "Close",
            "SetRobust(true)", "SetRobust(false)"}
HandlerOps == {"Prepare", "GetOutbound", "SetSent", "SetDeferred",
               "GetInboundAnswer", "ProcessInbound"}
\* The calls of the turn handlers, as they appear in trace (the handshake's
\* call appears as "handshake").
TurnMarks == {"handleOutbound", "handleInbound"}

\* ------------------------------------------------------- Session.Done

Done == quitReceived \/ quitSent

\* ------------------------------------------- the deferred function of Exchange

\* DeferredErr without the net.ErrClosed case.
DeferredErr_NoClosedCase(e) ==
    CASE e = "nil" -> "nil"
      [] e \in {"EOF", "UnexpectedEOF"} -> "ErrConnLost"
      [] OTHER -> e

\* DeferredErr with a timeout counted as a lost connection.
DeferredErr_TimeoutLost(e) ==
    CASE e = "nil" -> "nil"
      [] e \in {"EOF", "UnexpectedEOF", "ErrClosed", "Timeout"} -> "ErrConnLost"
      [] OTHER -> e

\* The error Exchange returns for the error e its body returned: the switch
\* of the deferred function.
DeferredErr(e) ==
    CASE e = "nil" -> "nil"
      [] e \in {"EOF", "UnexpectedEOF"} -> "ErrConnLost"
      [] e = "ErrClosed" -> "ErrConnLost"
      [] OTHER -> e

\* DeferredEcho without the deadline.
DeferredEcho_NoDeadline(e) ==
    CASE e = "nil" -> <<>>
      [] e \in ConnLostKinds -> <<>>
      [] OTHER -> <<"ErrLine">>

\* DeferredEcho with every transport error left unechoed.
DeferredEcho_TransportSilent(e) ==
    CASE e = "nil" -> <<>>
      [] e \in TransportKinds -> <<>>
      [] OTHER -> <<"SetDeadline", "ErrLine">>

\* DeferredEcho with net.ErrClosed falling to the default case.
DeferredEcho_ClosedEchoed(e) ==
    CASE e = "nil" -> <<>>
      [] e \in {"EOF", "UnexpectedEOF"} -> <<>>
      [] OTHER -> <<"SetDeadline", "ErrLine">>

\* What the deferred function does to the connection before closing it.
DeferredEcho(e) ==
    CASE e = "nil" -> <<>>
      [] e \in {"EOF", "UnexpectedEOF"} -> <<>>
      [] e = "ErrClosed" -> <<>>
      [] OTHER -> <<"SetDeadline", "ErrLine">>

\* DeferredClose with the close on the success path only.
DeferredClose_OnSuccessOnly(e) == IF e = "nil" THEN <<"Close">> ELSE <<>>

\* The inner defer of the deferred function: conn.Close() on every path.
DeferredClose(e) == <<"Close">>

\* defer r.SetRobust(false), registered once the connection was found to
\* implement transport.Robust; it runs before the deferred function above.
DeferredRobust(registered) ==
    IF registered THEN <<"SetRobust(false)">> ELSE <<>>

\* A return of Exchange's body with (st, e) from phase ph, after the
\* operations ev of the returning step: the deferred calls run
\* last-registered first, and the results reach the caller.
Return(ev, st, e, ph, robustRegistered) ==
    /\ trace' = trace \o ev \o DeferredRobust(robustRegistered)
                      \o DeferredEcho(e) \o DeferredClose(e)
    /\ retStats' = st
    /\ retErr' = DeferredErr(e)
    /\ cause' = [err |-> e, phase |-> ph]
    /\ started' = TRUE
    /\ pc' = "idle"

\* ------------------------------------------------------------------- Init

\* The values of the components a specification does not run.
NoProp == [fn |-> "none"]
NoDir == [op |-> "none"]
NoRig == [pc |-> "none"]
NoKw == [pc |-> "none"]

\* No Session: the state of the session's variables in the specifications
\* of the other components.
NoSession ==
    /\ master = FALSE
    /\ hNil = TRUE
    /\ robustMode = RobustAuto
    /\ quitSent = FALSE
    /\ quitReceived = FALSE
    /\ remoteNoMsgs = FALSE
    /\ trafficStats = EmptyStats
    /\ pc = "none"
    /\ callNo = 0
    /\ myTurn = FALSE
    /\ connRobust = FALSE
    /\ trace = <<>>
    /\ started = FALSE
    /\ retStats = EmptyStats
    /\ retErr = "nil"
    /\ cause = NoCause
    /\ outbox = {}
    /\ sent = {}
    /\ inbox = {}
    /\ deferred = {}
    /\ peerPending = {}

Init ==
    /\ prop = NoProp
    /\ dir = NoDir
    /\ rig = NoRig
    /\ kw = NoKw
    /\ master \in BOOLEAN
    /\ hNil \in BOOLEAN
    /\ robustMode \in {RobustAuto, RobustForced, RobustDisabled}
    /\ quitSent = FALSE
    /\ quitReceived = FALSE
    /\ remoteNoMsgs = FALSE
    /\ trafficStats = EmptyStats
    /\ pc = "idle"
    /\ callNo = 0
    /\ myTurn = FALSE
    /\ connRobust \in BOOLEAN
    /\ trace = <<>>
    /\ started = FALSE
    /\ retStats = EmptyStats
    /\ retErr = "nil"
    /\ cause = NoCause
    /\ \E k \in 0..MaxOut : outbox = 1..k
    /\ sent = {}
    /\ inbox = {}
    /\ deferred = {}
    /\ \E k \in 0..MaxIn : peerPending = 101..(100 + k)

\* ------------------------------------------------- the steps of Exchange

\* NeedsPrepare with Prepare never called.
NeedsPrepare_Never == FALSE

\* if s.h != nil { err = s.h.Prepare() ... }
NeedsPrepare == ~hNil

\* DirHandler.Prepare: h.deferred = make(map[string]bool).
Prepare == {}

\* SetRobustAtStart with robust mode switched on under RobustAuto only.
SetRobustAtStart_AutoOnly ==
    IF connRobust
    THEN IF robustMode = RobustAuto
         THEN <<"SetRobust(true)">> ELSE <<"SetRobust(false)">>
    ELSE <<>>

\* r.SetRobust(s.robustMode != RobustDisabled) on a connection that
\* implements transport.Robust.
SetRobustAtStart ==
    IF connRobust
    THEN IF robustMode # RobustDisabled
         THEN <<"SetRobust(true)">> ELSE <<"SetRobust(false)">>
    ELSE <<>>

\* FirstTurn with the master taking the first outbound turn.
FirstTurn_Master == master

\* The loop's first value of myTurn.
FirstTurn == ~master

\* The handshake's operations on the connection: the master writes its MOTD
\* and banner and then reads the peer's; the slave reads first.
HandshakeIO ==
    IF master THEN <<"Write", "Read">> ELSE <<"Read", "Write">>

\* --------------------------------------------------------------- Exchange

\* Exchange(conn), up to the registration of the deferred function: a
\* Session that is Done returns the zero TrafficStats and nil at once.
ExchangeEnter ==
    /\ pc = "idle"
    /\ callNo < MaxCalls
    /\ callNo' = callNo + 1
    /\ trace' = <<>>
    /\ started' = ~Done
    /\ retStats' = EmptyStats
    /\ retErr' = "nil"
    /\ cause' = NoCause
    /\ pc' = IF Done THEN "idle" ELSE "prepare"
    /\ UNCHANGED <<others, sessionCfg, quitSent, quitReceived, remoteNoMsgs,
                   trafficStats, myTurn, connRobust, mbox, peerPending>>

\* s.h.Prepare() when a handler is set; its error ends the call.  Prepare
\* starts a new session of the mailbox: nothing is deferred any more.
ExchangePrepare ==
    /\ pc = "prepare"
    /\ IF NeedsPrepare
       THEN \E r \in PrepareResults :
              /\ deferred' = Prepare
              /\ IF r = "nil"
                 THEN /\ trace' = trace \o <<"Prepare">>
                      /\ pc' = "handshake"
                      /\ UNCHANGED lastReturn
                 ELSE Return(<<"Prepare">>, EmptyStats, r, "prepare", FALSE)
       ELSE /\ pc' = "handshake"
            /\ UNCHANGED <<trace, deferred, lastReturn>>
    /\ UNCHANGED <<others, sessionCfg, quitSent, quitReceived, remoteNoMsgs,
                   trafficStats, callNo, myTurn, connRobust, outbox, sent,
                   inbox, peerPending>>

\* SetRobust according to the setting, bufio.NewReader, s.handshake(conn);
\* a failed handshake ends the call, a successful one enters the loop with
\* myTurn := !s.master.
ExchangeHandshake ==
    /\ pc = "handshake"
    /\ \/ /\ trace' = trace \o SetRobustAtStart \o <<"handshake">> \o HandshakeIO
          /\ myTurn' = FirstTurn
          /\ pc' = "loop"
          /\ UNCHANGED lastReturn
       \/ \E k \in 1..Len(HandshakeIO) :
          \E e \in (IF HandshakeIO[k] = "Write" THEN WriteErrs ELSE ReadErrs) :
             /\ Return(SetRobustAtStart \o <<"handshake">> \o SubSeq(HandshakeIO, 1, k),
                       EmptyStats, e, "handshake", connRobust)
             /\ UNCHANGED myTurn
    /\ UNCHANGED <<others, sessionCfg, quitSent, quitReceived, remoteNoMsgs,
                   trafficStats, callNo, connRobust, mbox, peerPending>>

\* ------------------------------------------------------ mailbox handler

\* DirHandler.GetOutbound: the outbox messages that are not deferred (every
\* message of this outbox is addressed to what the peer forwards for).
GetOutbound == outbox \ deferred

\* DirHandler.GetInboundAnswer: Reject a message already in the inbox.
GetInboundAnswer(mid) == IF mid \in inbox THEN "-" ELSE "+"

\* Session.outbound: no proposals without a handler, else one per message
\* of GetOutbound, in offer order.
outbound == IF hNil THEN <<>> ELSE SetToSeq(GetOutbound)

\* -------------------------------------------------------------- the turns

\* The protocol's cap on the proposals of one batch.
MaxProposals == 5

Answers == {"+", "-", "="}

\* Sending one data block: robust mode is suspended for it under RobustAuto.
DataBlock ==
    IF connRobust /\ robustMode = RobustAuto
    THEN <<"SetRobust(false)", "Write", "SetRobust(true)">>
    ELSE <<"Write">>

RECURSIVE OutboundEvents(_, _)
\* The operations for the first n answers of the FS line.
OutboundEvents(ans, n) ==
    IF n = 0 THEN <<>>
    ELSE OutboundEvents(ans, n - 1) \o
         (CASE ans[n] = "+" -> DataBlock \o <<"SetSent">>
            [] ans[n] = "-" -> <<"SetSent">>
            [] OTHER -> <<"SetDeferred">>)

\* The MIDs among the first n of batch whose answer is in which.
Answered(batch, ans, n, which) ==
    SelectSeq(SubSeq(batch, 1, n),
              LAMBDA m : \E i \in 1..n : batch[i] = m /\ ans[i] \in which)

\* TurnErrorStats with the zero TrafficStats, as a bare return gives.
TurnErrorStats_Zero(st) == EmptyStats

\* The TrafficStats of the loop's error return:
\* return s.trafficStats, err.
TurnErrorStats(st) == st

NextTurn_Same(t) == t

\* The loop's post statement: myTurn = !myTurn.
NextTurn(t) == ~t

\* handleOutbound's call of outbound(), as it appears in trace.
OutboundHead ==
    <<"handleOutbound">> \o (IF hNil THEN <<>> ELSE <<"GetOutbound">>)

\* s.quitSent, err = s.handleOutbound(conn) with nothing to propose: FQ when
\* the remote had no messages either, else FF.
OutboundNoTraffic ==
    /\ outbound = <<>>
    /\ \/ /\ trace' = trace \o OutboundHead \o <<"Write">>
          /\ quitSent' = remoteNoMsgs
          /\ myTurn' = NextTurn(myTurn)
          /\ UNCHANGED <<pc, lastReturn>>
       \/ \E e \in WriteErrs :
             /\ Return(OutboundHead \o <<"Write">>, TurnErrorStats(trafficStats), e,
                       "outbound", connRobust)
             /\ UNCHANGED <<quitSent, myTurn>>
    /\ UNCHANGED <<trafficStats, outbox, sent, deferred>>

\* s.quitSent, err = s.handleOutbound(conn) with proposals: the batch is
\* offered, the FS line read, and the answers are served in offer order;
\* the turn fails at the proposals, at the FS line or at a data block.
OutboundBatch ==
    /\ outbound # <<>>
    /\ LET batch == SubSeq(outbound, 1, Min(Len(outbound), MaxProposals))
       IN \E ans \in [1..Len(batch) -> Answers] :
          \E n \in 0..Len(batch) :
             LET done == Answered(batch, ans, n, {"+", "-"})
                 defd == Answered(batch, ans, n, {"="})
                 stats == [trafficStats EXCEPT !.Sent = @ \o done]
                 ev == OutboundHead \o <<"Write", "Read">>
                         \o OutboundEvents(ans, n)
             IN /\ trafficStats' = stats
                /\ outbox' = outbox \ Range(done)
                /\ sent' = sent \cup Range(done)
                /\ deferred' = deferred \cup Range(defd)
                /\ IF n = Len(batch)
                   THEN /\ trace' = trace \o ev
                        /\ myTurn' = NextTurn(myTurn)
                        /\ UNCHANGED <<pc, lastReturn>>
                   ELSE /\ n = 0 \/ ans[n + 1] = "+"
                        /\ \E e \in ReadErrs :
                             /\ e = "Protocol" => n = 0
                             /\ Return(IF n = 0 THEN OutboundHead \o <<"Write", "Read">>
                                       ELSE ev \o DataBlock,
                                       TurnErrorStats(stats), e, "outbound",
                                       connRobust)
                        /\ UNCHANGED myTurn
    /\ UNCHANGED quitSent

HandleOutbound ==
    /\ pc = "loop"
    /\ ~Done
    /\ myTurn
    /\ OutboundNoTraffic \/ OutboundBatch
    /\ UNCHANGED <<others, sessionCfg, quitReceived, remoteNoMsgs, callNo,
                   connRobust, inbox, peerPending>>

\* s.quitReceived, err = s.handleInbound(conn): the peer's line is FF (no
\* traffic), FQ (quit) or a batch of proposals, which is answered, received
\* and handed to ProcessInbound; the turn fails at a read, at the FS line
\* or in ProcessInbound.
InboundNoTraffic ==
    /\ peerPending = {}
    /\ \E quit \in BOOLEAN :
          /\ quitReceived' = quit
          /\ remoteNoMsgs' = (remoteNoMsgs \/ ~quit)
    /\ trace' = trace \o <<"handleInbound", "Read">>
    /\ myTurn' = NextTurn(myTurn)
    /\ UNCHANGED <<pc, lastReturn, trafficStats, inbox, peerPending>>

InboundReadError ==
    /\ \E e \in ReadErrs :
          Return(<<"handleInbound", "Read">>, TurnErrorStats(trafficStats), e, "inbound",
                 connRobust)
    /\ UNCHANGED <<quitReceived, remoteNoMsgs, myTurn, trafficStats, inbox,
                   peerPending>>

InboundBatch ==
    /\ peerPending # {}
    /\ LET batch == SetToSeq(peerPending)
           acc == IF hNil THEN <<>>
                  ELSE SelectSeq(batch, LAMBDA m : GetInboundAnswer(m) = "+")
           asked == IF hNil THEN <<>>
                    ELSE [i \in 1..Len(batch) |-> "GetInboundAnswer"]
           head == <<"handleInbound", "Read">> \o asked \o <<"Write">>
           data == [i \in 1..Len(acc) |-> "Read"]
           store == IF acc = <<>> THEN <<>> ELSE <<"ProcessInbound">>
       IN \/ /\ trace' = trace \o head \o data \o store
             /\ trafficStats' = [trafficStats EXCEPT !.Received = @ \o acc]
             /\ inbox' = inbox \cup Range(acc)
             /\ peerPending' = {}
             /\ remoteNoMsgs' = FALSE
             /\ myTurn' = NextTurn(myTurn)
             /\ UNCHANGED <<pc, lastReturn>>
          \/ /\ \/ \E e \in WriteErrs :
                     Return(head, TurnErrorStats(trafficStats), e, "inbound",
                            connRobust)
                \/ /\ acc # <<>>
                   /\ \/ \E e \in ReadErrs :
                            Return(head \o <<"Read">>,
                                   TurnErrorStats(trafficStats), e,
                                   "inbound", connRobust)
                      \/ Return(head \o data \o store,
                                TurnErrorStats(trafficStats),
                                "Mailbox", "inbound", connRobust)
             /\ UNCHANGED <<trafficStats, inbox, peerPending, remoteNoMsgs,
                            myTurn>>
    /\ UNCHANGED quitReceived

HandleInbound ==
    /\ pc = "loop"
    /\ ~Done
    /\ ~myTurn
    /\ InboundNoTraffic \/ InboundReadError \/ InboundBatch
    /\ UNCHANGED <<others, sessionCfg, quitSent, callNo, connRobust, outbox, sent,
                   deferred>>

\* The loop's exit once the session is Done:
\* return s.trafficStats, conn.Close().
ExchangeQuit ==
    /\ pc = "loop"
    /\ Done
    /\ \E c \in CloseResults :
          Return(<<"Close">>, trafficStats, c, "close", connRobust)
    /\ UNCHANGED <<others, sessionCfg, quitSent, quitReceived, remoteNoMsgs,
                   trafficStats, callNo, myTurn, connRobust, mbox,
                   peerPending>>

\* ------------------------------------------------------- specification

Next ==
    \/ ExchangeEnter
    \/ ExchangePrepare
    \/ ExchangeHandshake
    \/ HandleOutbound
    \/ HandleInbound
    \/ ExchangeQuit

Spec == Init /\ [][Next]_vars

\* ========================================================= fbb proposals
\* sortProposals, Proposal.precedence and parseProposal are functions of
\* their arguments: SpecProposal draws an argument and applies one of them.

MaxProps == 3    \* proposals in one batch handed to sortProposals
MaxTitle == 4    \* pieces of text in a title
MaxRest == 5     \* fields after the message type in a proposal line

\* A title is a sequence of pieces of text; "x" is text free of markers.
TitlePieces == {"//WL2K ", "Z/", "O/", "P/", "x"}

SeqsUpTo(S, n) == UNION {[1..k -> S] : k \in 0..n}

Titles == SeqsUpTo(TitlePieces, MaxTitle)

\* strings.Contains(s, sub)
Contains(s, sub) ==
    \E i \in 1..(Len(s) + 1) :
        /\ i + Len(sub) - 1 <= Len(s)
        /\ SubSeq(s, i, i + Len(sub) - 1) = sub

Flash == 0
Immediate == 1
Priority == 2
Routine == 3

FlashMarker == <<"//WL2K ", "Z/">>
ImmediateMarker == <<"//WL2K ", "O/">>
PriorityMarker == <<"//WL2K ", "P/">>

precedence_PriorityFirst(title) ==
    IF Contains(title, PriorityMarker) THEN Priority
    ELSE IF Contains(title, ImmediateMarker) THEN Immediate
    ELSE IF Contains(title, FlashMarker) THEN Flash
    ELSE Routine

\* func (p *Proposal) precedence() int, as a function of p.title
precedence(title) ==
    IF Contains(title, FlashMarker) THEN Flash
    ELSE IF Contains(title, ImmediateMarker) THEN Immediate
    ELSE IF Contains(title, PriorityMarker) THEN Priority
    ELSE Routine

\* The proposals of a batch: MIDs and compressed sizes ordered as the
\* numbers that stand for them, a title of each precedence and a second
\* Routine one.
BatchTitles ==
    {FlashMarker, ImmediateMarker, PriorityMarker, <<"x">>, <<"O/">>}
BatchProposals == [mid : 1..2, compressedSize : 1..2, title : BatchTitles]
Batches == SeqsUpTo(BatchProposals, MaxProps)

bySizeLess_SizeOnly(a, b) == a.compressedSize < b.compressedSize

\* bySize.Less
bySizeLess(a, b) ==
    IF a.compressedSize # b.compressedSize
    THEN a.compressedSize < b.compressedSize
    ELSE a.mid < b.mid

\* byPrecedence.Less
byPrecedenceLess(a, b) == precedence(a.title) < precedence(b.title)

\* sort.Sort(bySize(props)): the sort is not stable, so every arrangement
\* of props that bySize.Less orders is a possible outcome.
SortBySize(props) ==
    {[i \in 1..Len(props) |-> props[f[i]]] : f \in Permutations(1..Len(props))}
        \cap {s \in [1..Len(props) -> Range(props)] :
                 \A i, j \in 1..Len(props) : i < j => ~bySizeLess(s[j], s[i])}

\* The place of x in s, sorted by precedence: behind every element that is
\* not Less than it.
RECURSIVE InsertByPrecedence(_, _)
InsertByPrecedence(s, x) ==
    IF s = <<>> THEN <<x>>
    ELSE IF byPrecedenceLess(x, Last(s))
         THEN InsertByPrecedence(SubSeq(s, 1, Len(s) - 1), x) \o <<Last(s)>>
         ELSE s \o <<x>>

\* sort.Stable(byPrecedence(props))
RECURSIVE StableByPrecedence(_)
StableByPrecedence(props) ==
    IF props = <<>> THEN <<>>
    ELSE InsertByPrecedence(
             StableByPrecedence(SubSeq(props, 1, Len(props) - 1)), Last(props))

\* The arrangements of props sortProposals can leave.
sortProposals(props) == {StableByPrecedence(s) : s \in SortBySize(props)}

\* --- proposal lines: sequences of characters

Chars(str) ==
    CASE str = "" -> <<>>
      [] str = "EM" -> <<"E", "M">>
      [] str = "CM" -> <<"C", "M">>
      [] str = "XY" -> <<"X", "Y">>
      [] str = "E" -> <<"E">>
      [] str = "EMX" -> <<"E", "M", "X">>
      [] str = "1" -> <<"1">>
      [] str = "72" -> <<"7", "2">>
      [] str = "A1" -> <<"A", "1">>

TypeFields == {"", "EM", "CM", "XY", "E", "EMX"}
RestFields == {"1", "72", "A1"}

RECURSIVE Join(_)
Join(parts) ==
    IF parts = <<>> THEN <<>>
    ELSE IF Len(parts) = 1 THEN Chars(parts[1])
    ELSE Chars(parts[1]) \o <<" ">> \o Join(Tail(parts))

\* The lines handed to parseProposal: the short ones, and an F, a code and
\* a separator followed by fields.
ShortLines == SeqsUpTo({"F", "A", "B", "C", "D", "X", ";"}, 2)
FieldLines ==
    {<<"F", c, " ">> \o Join(<<t>> \o rest) :
        c \in {"A", "B", "C", "D", "X"}, t \in TypeFields,
        rest \in SeqsUpTo(RestFields, MaxRest)}
Lines == ShortLines \cup FieldLines

BasicProposal == "B"
AsciiProposal == "A"
Wl2kProposal == "C"
GzipProposal == "D"

\* strings.Split(s, " ")
RECURSIVE Split(_)
Split(s) ==
    IF \A i \in 1..Len(s) : s[i] # " " THEN <<s>>
    ELSE LET k == CHOOSE i \in 1..Len(s) :
                     s[i] = " " /\ \A j \in 1..(i - 1) : s[j] # " "
         IN  <<SubSeq(s, 1, k - 1)>> \o Split(SubSeq(s, k + 1, Len(s)))

Digit(c) ==
    CASE c = "0" -> 0 [] c = "1" -> 1 [] c = "2" -> 2 [] c = "3" -> 3
      [] c = "4" -> 4 [] c = "5" -> 5 [] c = "6" -> 6 [] c = "7" -> 7
      [] c = "8" -> 8 [] c = "9" -> 9

Digits == {"0", "1", "2", "3", "4", "5", "6", "7", "8", "9"}

RECURSIVE Decimal(_)
Decimal(s) ==
    IF s = <<>> THEN 0
    ELSE 10 * Decimal(SubSeq(s, 1, Len(s) - 1)) + Digit(Last(s))

\* n, _ := strconv.Atoi(part): 0 when part is not a number
Atoi(part) ==
    IF part # <<>> /\ \A i \in 1..Len(part) : part[i] \in Digits
    THEN Decimal(part)
    ELSE 0

\* The zero Proposal, of the fields parsing sets.
ZeroProposal ==
    [code |-> "", msgType |-> <<>>, mid |-> <<>>, size |-> 0,
     compressedSize |-> 0]

\* The fields parts[from..] set in prop, as far as index upto (from 0).
RECURSIVE SetParts(_, _, _, _)
SetParts(p, parts, i, upto) ==
    IF i > upto \/ i >= Len(parts) THEN p
    ELSE SetParts(
             CASE i = 0 -> [p EXCEPT !.msgType = parts[1]]
               [] i = 1 -> [p EXCEPT !.mid = parts[2]]
               [] i = 2 -> [p EXCEPT !.size = Atoi(parts[3])]
               [] i = 3 -> [p EXCEPT !.compressedSize = Atoi(parts[4])]
               [] OTHER -> p,
             parts, i + 1, upto)

\* parseB2Proposal(line, prop): the error and prop as it is left
parseB2Proposal(line, p) ==
    IF Len(line) < 4
    THEN [err |-> "Unexpected end of proposal line", prop |-> p]
    ELSE IF ~(line[2] = Wl2kProposal \/ line[2] = GzipProposal)
    THEN [err |-> "Not a type C or D proposal", prop |-> p]
    ELSE LET parts == Split(SubSeq(line, 4, Len(line)))
         IN  IF Len(parts) < 5
             THEN [err |-> "Malformed proposal", prop |-> p]
             ELSE IF Len(parts[1]) < 1 \/ Len(parts[1]) > 2
             THEN [err |-> "Malformed proposal 0", prop |-> p]
             ELSE IF parts[1] # <<"E", "M">> /\ parts[1] # <<"C", "M">>
             THEN [err |-> "Expected message type CM or EM", prop |-> p]
             ELSE IF Len(parts) > 5
             THEN [err |-> "Too many parts in proposal",
                   prop |-> SetParts(p, parts, 0, 4)]
             ELSE [err |-> "nil", prop |-> SetParts(p, parts, 0, 4)]

\* parseProposal(line, prop): line[1] of a line of one character is out of
\* range and panics.
parseProposal(line, p) ==
    IF Len(line) < 1 \/ line[1] # "F"
    THEN [panic |-> FALSE, err |-> "nil", prop |-> p]
    ELSE IF Len(line) < 2
    THEN [panic |-> TRUE, err |-> "nil", prop |-> p]
    ELSE LET q == [p EXCEPT !.code = line[2]]
         IN  IF q.code \in {BasicProposal, AsciiProposal}
             THEN [panic |-> FALSE, err |-> "nil", prop |-> q]
             ELSE IF q.code \in {Wl2kProposal, GzipProposal}
             THEN [panic |-> FALSE] @@ parseB2Proposal(line, q)
             ELSE [panic |-> FALSE, err |-> "Unsupported proposal code",
                   prop |-> q]

\* --- Session.outbound

MaxMsgs == 3    \* messages GetOutbound hands to Session.outbound

\* What matters of a message to outbound: its MID, its title, and whether
\* it is valid, fails Validate ("invalid") or fails in Proposal ("corrupt").
MessageKinds ==
    [mid : 1..MaxMsgs, title : {FlashMarker, <<"x">>},
     check : {"ok", "invalid", "corrupt"}]

\* The results of h.GetOutbound(s.remoteFW...): messages of distinct MIDs.
HandlerOutbound ==
    UNION {{m \in [1..k -> MessageKinds] :
               \A i, j \in 1..k : i # j => m[i].mid # m[j].mid} :
           k \in 0..MaxMsgs}

Proposed_Unvalidated(m) ==
    IF m.check = "corrupt"
    THEN <<>>
    ELSE <<[mid |-> m.mid, compressedSize |-> 1, title |-> m.title]>>

\* The body of outbound's loop: the proposal appended for m, none when
\* m.Validate() or m.Proposal(code) returns an error.
Proposed(m) ==
    IF m.check = "invalid" THEN <<>>
    ELSE IF m.check = "corrupt" THEN <<>>
    ELSE <<[mid |-> m.mid, compressedSize |-> 1, title |-> m.title]>>

RECURSIVE ProposedAll(_)
ProposedAll(msgs) ==
    IF msgs = <<>> THEN <<>>
    ELSE Proposed(Head(msgs)) \o ProposedAll(Tail(msgs))

\* Session.outbound(): the lists it can return, msgs being what the
\* handler's GetOutbound gives.
SessionOutbound(handlerNil, msgs) ==
    IF handlerNil THEN {<<>>} ELSE sortProposals(ProposedAll(msgs))

\* --- the calls

InitProposal ==
    /\ NoSession
    /\ dir = NoDir
    /\ rig = NoRig
    /\ kw = NoKw
    /\ \/ \E b \in Batches :
             prop = [fn |-> "sortProposals", arg |-> b, done |-> FALSE]
       \/ \E t \in Titles :
             prop = [fn |-> "precedence", arg |-> t, done |-> FALSE]
       \/ \E l \in Lines :
             prop = [fn |-> "parseProposal", arg |-> l, done |-> FALSE]
       \/ \E msgs \in HandlerOutbound :
             prop = [fn |-> "outbound", arg |-> msgs, h |-> "handler",
                     done |-> FALSE]
       \/ prop = [fn |-> "outbound", arg |-> <<>>, h |-> "nil",
                  done |-> FALSE]

SortProposals ==
    /\ prop.fn = "sortProposals"
    /\ ~prop.done
    /\ \E s \in sortProposals(prop.arg) :
          prop' = [prop EXCEPT !.done = TRUE] @@ [out |-> s]
    /\ UNCHANGED <<sessionVars, dir, rig, kw>>

Precedence ==
    /\ prop.fn = "precedence"
    /\ ~prop.done
    /\ prop' = [prop EXCEPT !.done = TRUE] @@ [out |-> precedence(prop.arg)]
    /\ UNCHANGED <<sessionVars, dir, rig, kw>>

ParseProposal ==
    /\ prop.fn = "parseProposal"
    /\ ~prop.done
    /\ prop' = [prop EXCEPT !.done = TRUE]
                  @@ [out |-> parseProposal(prop.arg, ZeroProposal)]
    /\ UNCHANGED <<sessionVars, dir, rig, kw>>

Outbound ==
    /\ prop.fn = "outbound"
    /\ ~prop.done
    /\ \E s \in SessionOutbound(prop.h = "nil", prop.arg) :
          prop' = [prop EXCEPT !.done = TRUE] @@ [out |-> s]
    /\ UNCHANGED <<sessionVars, dir, rig, kw>>

NextProposal ==
    \/ SortProposals
    \/ Precedence
    \/ ParseProposal
    \/ Outbound

SpecProposal == InitProposal /\ [][NextProposal]_vars

\* ===================================================== mailbox.DirHandler
\* A DirHandler over a working file system: the folders are sets of MIDs
\* (the file of a message is MID + Ext), their files can be read and parsed.

MIDs == {1, 2}
Addrs == {"LA1B", "LA2C"}

Accept == "+"
Reject == "-"
Defer == "="

PrivateHeaders == {"X-P2POnly", "X-FilePath", "X-Unread"}

\* The messages the outbox may hold: their receivers, and whether the file
\* has the header X-P2POnly: true.
MessageFiles == [to : SUBSET Addrs \ {{}}, p2pOnly : BOOLEAN]

\* The forwarder addresses a peer announces.
Forwarders == SeqsUpTo(Addrs, 2)

\* OpenMessage(path): the message of the file, with its X-FilePath set.
OpenMessage(files, mid) ==
    [mid |-> mid,
     to |-> files[mid].to,
     hdrs |-> (IF files[mid].p2pOnly THEN {"X-P2POnly"} ELSE {})
                 \cup {"X-FilePath"}]

\* LoadMessageDir(dirPath): the messages of a folder in the order of
\* ioutil.ReadDir, by file name.
LoadMessageDir(files, folder) ==
    LET names == SetToSeq(folder)
    IN  [i \in 1..Len(names) |-> OpenMessage(files, names[i])]

\* m.IsOnlyReceiver(fw): fw is the one receiver of the message.
IsOnlyReceiver(m, fw) == m.to = {fw}

ToForwarder_AnyReceiver(m, fws) ==
    IF \E i \in 1..Len(fws) : fws[i] \in m.to THEN <<m>> ELSE <<>>

\* GetOutbound's loop over fws: m is delivered at the first forwarder that
\* is its only receiver, as it was loaded.
ToForwarder(m, fws) ==
    IF \E i \in 1..Len(fws) : IsOnlyReceiver(m, fws[i]) THEN <<m>> ELSE <<>>

ToCMS_P2PToo(m) == <<[m EXCEPT !.hdrs = @ \ PrivateHeaders]>>

\* GetOutbound without forwarders: a P2POnly message is kept back, any
\* other is delivered without its private headers.
ToCMS(m) ==
    IF "X-P2POnly" \in m.hdrs
    THEN <<>>
    ELSE <<[m EXCEPT !.hdrs = @ \ PrivateHeaders]>>

RECURSIVE DirGetOutbound(_, _, _)

DirGetOutbound_DeferredToo(all, fws, dfr) ==
    IF all = <<>> THEN <<>>
    ELSE (IF Len(fws) > 0 THEN ToForwarder(Head(all), fws)
          ELSE ToCMS(Head(all)))
         \o DirGetOutbound(Tail(all), fws, dfr)

\* DirHandler.GetOutbound(fws...) over the messages all of the outbox
DirGetOutbound(all, fws, dfr) ==
    IF all = <<>> THEN <<>>
    ELSE (IF Head(all).mid \in dfr THEN <<>>
          ELSE IF Len(fws) > 0 THEN ToForwarder(Head(all), fws)
          ELSE ToCMS(Head(all)))
         \o DirGetOutbound(Tail(all), fws, dfr)

DirGetInboundAnswer_NeverDefer(sendOnly, open) ==
    IF open = "nil" THEN Reject ELSE Accept

\* DirHandler.GetInboundAnswer(p), open being what os.Open of the inbox
\* file of p.MID() gives: "nil", "not exist" or another error.
DirGetInboundAnswer(sendOnly, open) ==
    IF sendOnly THEN Defer
    ELSE IF open = "nil" THEN Reject
    ELSE IF open = "not exist" THEN Accept
    ELSE Accept

\* os.Open of a file of the inbox
OpenInbox(inboxFolder, mid) ==
    IF mid \in inboxFolder THEN "nil" ELSE "not exist"

\* NewDirHandler(path, sendOnly) on a mailbox with some messages to send
InitDir ==
    /\ NoSession
    /\ prop = NoProp
    /\ rig = NoRig
    /\ kw = NoKw
    /\ \E so \in BOOLEAN, files \in [MIDs -> MessageFiles], o \in SUBSET MIDs :
          dir = [sendOnly |-> so, files |-> files, out |-> o, sent |-> {},
                 inbox |-> {}, dfr |-> {}, prepared |-> FALSE,
                 alive |-> "running",
                 op |-> "NewDirHandler", arg |-> <<>>, ret |-> <<>>]

DirCall(op, arg, ret) ==
    [dir EXCEPT !.op = op, !.arg = arg, !.ret = ret]

\* h.Prepare(): h.deferred = make(map[string]bool)
DirPrepare ==
    /\ dir.alive = "running"
    /\ dir' = [DirCall("Prepare", <<>>, "nil")
                  EXCEPT !.dfr = {}, !.prepared = TRUE]
    /\ UNCHANGED <<sessionVars, prop, rig, kw>>

\* h.GetOutbound(fws...)
GetOutboundCall ==
    /\ dir.alive = "running"
    /\ \E fws \in Forwarders :
          dir' = DirCall("GetOutbound", fws,
                         DirGetOutbound(LoadMessageDir(dir.files, dir.out),
                                        fws, dir.dfr))
    /\ UNCHANGED <<sessionVars, prop, rig, kw>>

\* DirSetSent with a rejected message left in the outbox.
DirSetSent_RejectedStays ==
    /\ dir.alive = "running"
    /\ \E mid \in MIDs, rejected \in BOOLEAN :
          IF mid \in dir.out
          THEN dir' = [DirCall("SetSent", <<mid, rejected>>, "nil")
                          EXCEPT !.out = IF rejected THEN @ ELSE @ \ {mid},
                                 !.sent = IF rejected THEN @
                                          ELSE @ \cup {mid}]
          ELSE dir' = [DirCall("SetSent", <<mid, rejected>>, "fatal")
                          EXCEPT !.alive = "fatal"]
    /\ UNCHANGED <<sessionVars, prop, rig, kw>>

\* h.SetSent(MID, rejected): os.Rename from the outbox to the sent folder,
\* log.Fatalf when it fails.
DirSetSent ==
    /\ dir.alive = "running"
    /\ \E mid \in MIDs, rejected \in BOOLEAN :
          IF mid \in dir.out
          THEN dir' = [DirCall("SetSent", <<mid, rejected>>, "nil")
                          EXCEPT !.out = @ \ {mid}, !.sent = @ \cup {mid}]
          ELSE dir' = [DirCall("SetSent", <<mid, rejected>>, "fatal")
                          EXCEPT !.alive = "fatal"]
    /\ UNCHANGED <<sessionVars, prop, rig, kw>>

\* h.SetDeferred(MID): h.deferred[MID] = true, a write to a nil map before
\* the first Prepare.
DirSetDeferred ==
    /\ dir.alive = "running"
    /\ \E mid \in MIDs :
          IF dir.prepared
          THEN dir' = [DirCall("SetDeferred", mid, "nil")
                          EXCEPT !.dfr = @ \cup {mid}]
          ELSE dir' = [DirCall("SetDeferred", mid, "panic")
                          EXCEPT !.alive = "panic"]
    /\ UNCHANGED <<sessionVars, prop, rig, kw>>

\* h.ProcessInbound(m): the message is written to the inbox.
DirProcessInbound ==
    /\ dir.alive = "running"
    /\ \E mid \in MIDs :
          dir' = [DirCall("ProcessInbound", mid, "nil")
                     EXCEPT !.inbox = @ \cup {mid}]
    /\ UNCHANGED <<sessionVars, prop, rig, kw>>

\* h.GetInboundAnswer(p)
GetInboundAnswerCall ==
    /\ dir.alive = "running"
    /\ \E mid \in MIDs :
          dir' = DirCall("GetInboundAnswer", mid,
                         DirGetInboundAnswer(dir.sendOnly,
                                             OpenInbox(dir.inbox, mid)))
    /\ UNCHANGED <<sessionVars, prop, rig, kw>>

NextDir ==
    \/ DirPrepare
    \/ GetOutboundCall
    \/ DirSetSent
    \/ DirSetDeferred
    \/ DirProcessInbound
    \/ GetInboundAnswerCall

SpecDir == InitDir /\ [][NextDir]_vars

\* ========================================================= hamlib.TCPRig
\* A TCPRig and the calls on it, cmd step by step.

MaxCloses == 2    \* calls of Close

\* What rigctld at r.addr would do with a connection.
Rigctld == {"listening", "refusing", "unreachable", "silent"}

\* The commands the package sends with cmd.
Commands ==
    {"dump_caps", "\\chk_vfo", "\\get_freq", "\\set_freq %d", "t",
     "\\set_ptt %d"}

\* r.dial(): the connection is returned from before net.DialTimeout, with
\* the zero err; r.tcpConn and r.conn are left as they are.
dial(r) == [err |-> "nil", conn |-> r.conn, tcpConn |-> r.tcpConn]

\* What r.doCmd returns on a connection: the response and the error of
\* conn.Cmd, conn.ReadLine and toError.
DoCmdResults ==
    {[resp |-> "", err |-> "EOF"],
     [resp |-> "", err |-> "net.Error"],
     [resp |-> "", err |-> "error"],
     [resp |-> "RPRT -1", err |-> "code -1"],
     [resp |-> "RPRT 0", err |-> "nil"],
     [resp |-> "1", err |-> "nil"]}

\* OpenTCP(addr)
InitRig ==
    /\ NoSession
    /\ prop = NoProp
    /\ dir = NoDir
    /\ kw = NoKw
    /\ \E s \in Rigctld :
          rig = [server |-> s, conn |-> "nil", tcpConn |-> "nil",
                 pc |-> "idle", format |-> "", i |-> 0, resp |-> "",
                 err |-> "nil", dials |-> 0, closes |-> 0]

\* r.cmd(format, args...) is called: Ping or a command of a VFO.
RigCmd ==
    /\ rig.pc = "idle"
    /\ \E f \in Commands :
          rig' = [rig EXCEPT !.pc = "loop", !.format = f, !.i = 0,
                             !.resp = "", !.err = "nil", !.dials = 0]
    /\ UNCHANGED <<sessionVars, prop, dir, kw>>

\* The head of the retry loop: cmd returns after three attempts, redials
\* without a connection and returns when that fails, else goes on to doCmd.
RigAttempt ==
    /\ rig.pc = "loop"
    /\ IF rig.i >= 3
       THEN rig' = [rig EXCEPT !.pc = "idle"]
       ELSE IF rig.conn = "nil"
       THEN LET d == dial(rig)
            IN  rig' = [rig EXCEPT !.conn = d.conn, !.tcpConn = d.tcpConn,
                                   !.err = d.err, !.dials = @ + 1,
                                   !.pc = IF d.err # "nil"
                                          THEN "idle" ELSE "doCmd"]
       ELSE rig' = [rig EXCEPT !.pc = "doCmd"]
    /\ UNCHANGED <<sessionVars, prop, dir, kw>>

\* resp, err = r.doCmd(format, args...) and the rest of the loop's body:
\* r.tcpConn.SetDeadline on the nil interface is a run-time panic.
RigDoCmd ==
    /\ rig.pc = "doCmd"
    /\ IF rig.tcpConn = "nil" \/ rig.conn = "nil"
       THEN rig' = [rig EXCEPT !.pc = "panic"]
       ELSE \E res \in DoCmdResults :
               rig' = [rig EXCEPT
                          !.resp = res.resp,
                          !.err = res.err,
                          !.conn = IF res.err \in {"EOF", "net.Error"}
                                   THEN "nil" ELSE @,
                          !.i = @ + 1,
                          !.pc = IF res.err = "nil" THEN "idle" ELSE "loop"]
    /\ UNCHANGED <<sessionVars, prop, dir, kw>>

\* r.Close()
RigClose ==
    /\ rig.pc = "idle"
    /\ rig.closes < MaxCloses
    /\ rig' = [rig EXCEPT !.closes = @ + 1]
    /\ UNCHANGED <<sessionVars, prop, dir, kw>>

NextRig ==
    \/ RigCmd
    \/ RigAttempt
    \/ RigDoCmd
    \/ RigClose

SpecRig == InitRig /\ [][NextRig]_vars

\* ======================================================= ax25.DialKenwood
\* DialKenwood with its two workers; the TNC's lines are drawn as they are
\* read.

MaxLines == 2    \* lines a worker reads that it has no use for

\* make(chan error, 1): what is in the channel, and whether it is closed.
NewChan == [buf |-> <<>>, closed |-> FALSE]

\* <-ch can go on: a value is in the channel or it is closed.
Ready(ch) == ch.buf # <<>> \/ ch.closed

\* The value of <-ch, the zero value nil from a closed empty channel.
Received(ch) == IF ch.buf # <<>> THEN Head(ch.buf) ELSE "nil"

\* The channel the connect wait of DialKenwood receives from.
ConnectWaitChan == kw.initErr

\* Before the call: the device and whether it can be opened.
InitKw ==
    /\ NoSession
    /\ prop = NoProp
    /\ dir = NoDir
    /\ rig = NoRig
    /\ \E d \in {"socket", "serial"}, o \in {"nil", "open error"} :
          kw = [dev |-> d, open |-> o, pc |-> "start",
                conn |-> "nil", err |-> "nil",
                initW |-> "idle", dialW |-> "idle",
                initErr |-> NewChan, dialErr |-> NewChan,
                initRead |-> 0, dialRead |-> 0,
                closed |-> FALSE, wrote |-> <<>>]

\* DialKenwood up to the first select: the device is opened and the
\* worker that initializes the TNC started.
KwOpen ==
    /\ kw.pc = "start"
    /\ IF kw.open # "nil"
       THEN IF kw.dev = "socket"
            THEN kw' = [kw EXCEPT !.pc = "panic"]
            ELSE kw' = [kw EXCEPT !.pc = "returned", !.conn = "conn",
                                  !.err = kw.open]
       ELSE kw' = [kw EXCEPT !.pc = "init wait", !.initW = "reading",
                             !.wrote = <<"restart">>]
    /\ UNCHANGED <<sessionVars, prop, dir, rig>>

\* The init worker reads a line: on an error it closes the connection and
\* sends the error, at the prompt it sends the init commands; either way
\* the deferred close(initErr) runs.
InitWorkerRead ==
    /\ kw.initW = "reading"
    /\ \/ /\ kw' = [kw EXCEPT !.initW = "done", !.closed = TRUE,
                              !.initErr = [buf |-> <<"read error">>,
                                           closed |-> TRUE]]
       \/ /\ ~kw.closed
          /\ kw' = [kw EXCEPT !.initW = "done",
                              !.wrote = @ \o <<"init commands">>,
                              !.initErr = [@ EXCEPT !.closed = TRUE]]
       \/ /\ ~kw.closed
          /\ kw.initRead < MaxLines
          /\ kw' = [kw EXCEPT !.initRead = @ + 1]
    /\ UNCHANGED <<sessionVars, prop, dir, rig>>

\* The first select: the deadline of 3 seconds passes, or initErr delivers;
\* after a nil the dial worker is started.
KwInitSelect ==
    /\ kw.pc = "init wait"
    /\ \/ kw' = [kw EXCEPT !.pc = "returned", !.closed = TRUE,
                           !.err = "initialization failed: deadline exceeded"]
       \/ /\ Ready(kw.initErr)
          /\ IF Received(kw.initErr) # "nil"
             THEN kw' = [kw EXCEPT !.pc = "returned", !.closed = TRUE,
                                   !.err = "initialization failed",
                                   !.initErr = [@ EXCEPT !.buf = <<>>]]
             ELSE kw' = [kw EXCEPT !.pc = "connect wait",
                                   !.dialW = "started"]
    /\ UNCHANGED <<sessionVars, prop, dir, rig>>

\* The dial worker sends the connect command.
DialWorkerStart ==
    /\ kw.dialW = "started"
    /\ kw' = [kw EXCEPT !.dialW = "reading", !.wrote = @ \o <<"c">>]
    /\ UNCHANGED <<sessionVars, prop, dir, rig>>

\* The dial worker reads a line: an error and *** DISCONNECTED are sent to
\* dialErr, *** CONNECTED to ends the worker; dialErr is closed behind it.
DialWorkerRead ==
    /\ kw.dialW = "reading"
    /\ \/ kw' = [kw EXCEPT !.dialW = "read error",
                           !.dialErr = [buf |-> <<"read error">>,
                                        closed |-> TRUE]]
       \/ /\ ~kw.closed
          /\ kw' = [kw EXCEPT !.dialW = "disconnected",
                              !.dialErr = [buf |-> <<"got disconnect">>,
                                           closed |-> TRUE]]
       \/ /\ ~kw.closed
          /\ kw' = [kw EXCEPT !.dialW = "connected",
                              !.dialErr = [@ EXCEPT !.closed = TRUE]]
       \/ /\ ~kw.closed
          /\ kw.dialRead < MaxLines
          /\ kw' = [kw EXCEPT !.dialRead = @ + 1]
    /\ UNCHANGED <<sessionVars, prop, dir, rig>>

\* The second select: the channel of the connect wait delivers, or while
\* it does not the deadline of 5 minutes passes; after a nil the TNC is
\* switched to transparent mode and the connection returned.
KwConnectSelect ==
    /\ kw.pc = "connect wait"
    /\ IF Ready(ConnectWaitChan)
       THEN IF Received(ConnectWaitChan) # "nil"
            THEN kw' = [kw EXCEPT !.pc = "returned", !.closed = TRUE,
                                  !.err = "connect failed"]
            ELSE kw' = [kw EXCEPT !.pc = "returned", !.conn = "conn",
                                  !.wrote = @ \o <<"TRANS">>]
       ELSE kw' = [kw EXCEPT !.pc = "returned", !.closed = TRUE,
                             !.err = "connect failed: deadline exceeded"]
    /\ UNCHANGED <<sessionVars, prop, dir, rig>>

NextKw ==
    \/ KwOpen
    \/ InitWorkerRead
    \/ KwInitSelect
    \/ DialWorkerStart
    \/ DialWorkerRead
    \/ KwConnectSelect

SpecKw == InitKw /\ [][NextKw]_vars

\* ====================================================== KenwoodConn.Close
\* Close on an open connection in transparent mode; the TNC's remaining
\* output is drawn when Close is called.

MaxStream == 3    \* lines the TNC still sends

\* The lines of the TNC: its prompt, other text, and the line that tells
\* of the disconnect.
TncLines == {"cmd:", "text", "*** DISCONNECTED"}

\* strings.Contains(line, `DISCONN`)
HasDisconn(line) == line = "*** DISCONNECTED"

\* How the byte stream ends behind the last line.
StreamEnds == {"EOF", "read error"}

\* line, _ := fbb.ReadLine(c): the next line of the stream, behind the
\* last one the empty line (the error is dropped).
ReadLine(stream, pos) == IF pos <= Len(stream) THEN stream[pos] ELSE ""

InitKwClose ==
    /\ NoSession
    /\ prop = NoProp
    /\ dir = NoDir
    /\ rig = NoRig
    /\ \E st \in SeqsUpTo(TncLines, MaxStream), e \in StreamEnds :
          kw = [pc |-> "Close", stream |-> st, end |-> e, pos |-> 1,
                etx |-> 0, round |-> 0, wrote |-> <<>>, conn |-> "open"]

\* Exit TRANS mode: ETX is written three times, then the disconnect
\* command.
KwCloseWrite ==
    /\ kw.pc = "Close"
    /\ IF kw.etx < 3
       THEN kw' = [kw EXCEPT !.etx = @ + 1, !.wrote = @ \o <<"ETX">>]
       ELSE kw' = [kw EXCEPT !.pc = "wait", !.wrote = @ \o <<"D">>]
    /\ UNCHANGED <<sessionVars, prop, dir, rig>>

\* One round of the loop that waits for the disconnect: a line is read,
\* and the loop is left if it contains DISCONN (round tells one round
\* from the next).
KwCloseRead ==
    /\ kw.pc = "wait"
    /\ kw' = [kw EXCEPT
                 !.pos = IF @ <= Len(kw.stream) THEN @ + 1 ELSE @,
                 !.round = 1 - @,
                 !.pc = IF HasDisconn(ReadLine(kw.stream, kw.pos))
                        THEN "disconnected" ELSE @]
    /\ UNCHANGED <<sessionVars, prop, dir, rig>>

\* return c.Conn.Close()
KwCloseConn ==
    /\ kw.pc = "disconnected"
    /\ kw' = [kw EXCEPT !.pc = "closed", !.conn = "closed"]
    /\ UNCHANGED <<sessionVars, prop, dir, rig>>

NextKwClose ==
    \/ KwCloseWrite
    \/ KwCloseRead
    \/ KwCloseConn

\* The goroutine that runs Close keeps running.
SpecKwClose ==
    InitKwClose /\ [][NextKwClose]_vars /\ WF_vars(NextKwClose)

\* ----------------------------------------------------------- properties

\* The last Exchange call has returned / has returned after starting an
\* exchange (the session was not Done when it was entered).
Returned == pc = "idle" /\ callNo >= 1
ReturnedStarted == Returned /\ started

\* The turns handled in the current call, in order.
Turns == SelectSeq(trace, LAMBDA op : op \in TurnMarks)

\* trace ends with the operations of suffix.
EndsWith(s, suffix) ==
    /\ Len(s) >= Len(suffix)
    /\ SubSeq(s, Len(s) - Len(suffix) + 1, Len(s)) = suffix

InTurnOrHandshake == cause.phase \in {"handshake", "outbound", "inbound"}

\* C1 as stated: the master's first turn after the handshake is
\* handleOutbound and the slave's first turn is handleInbound.
C1_MasterTakesFirstOutbound ==
    Turns # <<>> =>
        Turns[1] = IF master THEN "handleOutbound" ELSE "handleInbound"

\* C1, amended: turns alternate and the slave takes the first outbound
\* turn: the master's first turn after the handshake is handleInbound, the
\* slave's first turn is handleOutbound, and no two consecutive turns have
\* the same direction.
C1_SlaveTakesFirstOutbound ==
    /\ Turns # <<>> =>
          Turns[1] = IF master THEN "handleInbound" ELSE "handleOutbound"
    /\ \A i \in 1..(Len(Turns) - 1) : Turns[i] # Turns[i + 1]

C1_Witness == master /\ Len(Turns) >= 3

\* C2: a second Exchange call on the same Session returns (empty stats,
\* nil) and performs no operation on the connection and no call on the
\* handler, whatever the outcome of the first call.
C2_SecondExchangeIsNoop ==
    (pc = "idle" /\ callNo >= 2) =>
        /\ trace = <<>>
        /\ retErr = "nil"
        /\ retStats = EmptyStats

\* C3: every Exchange call that starts an exchange has closed the
\* connection when it returns, on the clean-quit path and on every error
\* path; Close is the last operation on the connection.
C3_ClosedOnEveryPath ==
    ReturnedStarted =>
        /\ "Close" \in Range(trace)
        /\ Last(trace) = "Close"

C3_Witness ==
    /\ ReturnedStarted
    /\ cause.phase = "inbound"
    /\ cause.err = "Mailbox"
    /\ "Close" \in Range(trace)

\* C4: when the handshake or a turn (or any other step) ends with io.EOF,
\* io.ErrUnexpectedEOF or net.ErrClosed, Exchange returns exactly
\* ErrConnLost, whatever the phase.
C4_ConnLost ==
    (ReturnedStarted /\ cause.err \in ConnLostKinds) =>
        retErr = "ErrConnLost"

C4_Witness ==
    /\ ReturnedStarted
    /\ cause.phase = "outbound"
    /\ cause.err = "ErrClosed"
    /\ retErr = "ErrConnLost"

C6_NoEchoOnTransportError ==
    (ReturnedStarted /\ cause.err \in TransportKinds) =>
        "ErrLine" \notin Range(trace)

\* C6, amended: an Exchange that ends with EOF, unexpected EOF or a closed
\* connection writes no *** line; one that ends with a timeout or another
\* I/O error writes the *** line, as for a protocol error.
C6_NoEchoOnConnLostOnly ==
    ReturnedStarted =>
        /\ cause.err \in ConnLostKinds => "ErrLine" \notin Range(trace)
        /\ cause.err \in (TransportKinds \ ConnLostKinds) =>
              Count(trace, "ErrLine") = 1

C6_Witness ==
    /\ ReturnedStarted
    /\ cause.phase = "outbound"
    /\ cause.err = "IOError"
    /\ "ErrLine" \in Range(trace)

\* C7 as stated: a byte stream closed during the handshake or a turn makes
\* Exchange return ErrConnLost after it set a deadline and attempted to
\* write a *** line.
C7_ConnLostAfterEcho ==
    (ReturnedStarted /\ InTurnOrHandshake /\ cause.err \in ConnLostKinds) =>
        /\ retErr = "ErrConnLost"
        /\ "SetDeadline" \in Range(trace)
        /\ "ErrLine" \in Range(trace)

\* C7, amended: a byte stream closed during the handshake or a turn makes
\* Exchange return ErrConnLost without setting a deadline and without
\* attempting to write a *** line; the connection is closed.
C7_ConnLostWithoutEcho ==
    (ReturnedStarted /\ InTurnOrHandshake /\ cause.err \in ConnLostKinds) =>
        /\ retErr = "ErrConnLost"
        /\ "SetDeadline" \notin Range(trace)
        /\ "ErrLine" \notin Range(trace)
        /\ Last(trace) = "Close"

C7_Witness ==
    /\ ReturnedStarted
    /\ cause.phase = "handshake"
    /\ cause.err = "EOF"
    /\ retErr = "ErrConnLost"

\* C8 as stated: a deadline timeout during the handshake or a turn makes
\* Exchange return ErrConnLost.
C8_TimeoutIsConnLost ==
    (ReturnedStarted /\ InTurnOrHandshake /\ cause.err = "Timeout") =>
        retErr = "ErrConnLost"

\* C8, amended: a deadline timeout during the handshake or a turn
\* terminates the session with Exchange returning the timeout error itself
\* (not ErrConnLost), the connection closed.
C8_TimeoutIsReturned ==
    (ReturnedStarted /\ InTurnOrHandshake /\ cause.err = "Timeout") =>
        /\ retErr = "Timeout"
        /\ Last(trace) = "Close"

C8_Witness ==
    /\ ReturnedStarted
    /\ cause.phase = "inbound"
    /\ cause.err = "Timeout"

\* C9: when Prepare returns an error, Exchange returns that error; the
\* only call on the handler is Prepare, there is no handshake and no turn,
\* the error is written to the peer as a *** line and the connection is
\* closed.
C9_PrepareError ==
    (ReturnedStarted /\ cause.phase = "prepare") =>
        /\ retErr = cause.err
        /\ trace = <<"Prepare", "SetDeadline", "ErrLine", "Close">>

\* C10: in an Exchange with a handler, Prepare is called exactly once, as
\* the first operation of the call: before every other handler call and
\* before the handshake reads or writes; the handshake comes before every
\* turn, and the close of the connection comes last.
C10_PrepareFirst ==
    (~hNil /\ (pc # "idle" \/ ReturnedStarted)) =>
        /\ pc = "prepare" => trace = <<>>
        /\ pc # "prepare" =>
              /\ Count(trace, "Prepare") = 1
              /\ trace[1] = "Prepare"
        /\ Count(trace, "handshake") <= 1
        /\ pc = "loop" => Count(trace, "handshake") = 1
        /\ Turns # <<>> => Count(trace, "handshake") = 1
        /\ \A j \in 1..Len(trace) :
              /\ trace[j] \in {"Read", "Write"} =>
                    \E i \in 1..(j - 1) : trace[i] = "handshake"
              /\ trace[j] \in TurnMarks =>
                    \E i \in 1..(j - 1) : trace[i] = "handshake"
              /\ trace[j] \in HandlerOps \ {"Prepare"} =>
                    \E i \in 1..(j - 1) : trace[i] \in TurnMarks
              /\ trace[j] = "Close" =>
                    \A k \in (j + 1)..Len(trace) :
                       trace[k] \notin (TurnMarks \cup HandlerOps \cup {"handshake"})
        /\ ReturnedStarted => Last(trace) = "Close"

C10_Witness ==
    /\ ~hNil
    /\ ReturnedStarted
    /\ cause.err = "nil"
    /\ Len(Turns) >= 2
    /\ "SetSent" \in Range(trace)
    /\ "ProcessInbound" \in Range(trace)

\* C11: when a turn fails, the TrafficStats returned with the error are
\* the session's own and hold every MID marked sent in the mailbox and
\* every MID stored in the inbox before the failure.
C11_PartialSuccessKept ==
    (ReturnedStarted /\ cause.phase \in {"outbound", "inbound"}) =>
        /\ retErr # "nil"
        /\ retStats = trafficStats
        /\ sent \subseteq Range(retStats.Sent)
        /\ inbox \subseteq Range(retStats.Received)

C11_Witness ==
    /\ ReturnedStarted
    /\ cause.phase = "inbound"
    /\ retErr # "nil"
    /\ sent # {}
    /\ Range(retStats.Sent) = sent

\* The operations of trace after its last SetRobust(false).
AfterLastRobustOff ==
    LET idx == {i \in 1..Len(trace) : trace[i] = "SetRobust(false)"}
    IN IF idx = {} THEN <<>>
       ELSE SubSeq(trace, (CHOOSE i \in idx : \A j \in idx : j <= i) + 1,
                   Len(trace))

\* C17: on a connection that implements transport.Robust, a RobustForced
\* session calls SetRobust(false) at no point of the running exchange (the
\* only such call is the deferred one of the return, followed by nothing
\* but the error echo and the close), and a RobustDisabled session never
\* calls SetRobust(true).
C17_RobustSetting ==
    connRobust =>
        /\ robustMode = RobustForced =>
              /\ pc # "idle" => "SetRobust(false)" \notin Range(trace)
              /\ Count(trace, "SetRobust(false)") <= 1
              /\ Range(AfterLastRobustOff)
                    \subseteq {"SetDeadline", "ErrLine", "Close"}
              /\ pc = "loop" => Count(trace, "SetRobust(true)") = 1
        /\ robustMode = RobustDisabled =>
              "SetRobust(true)" \notin Range(trace)

C17_Witness ==
    /\ connRobust
    /\ robustMode = RobustForced
    /\ ReturnedStarted
    /\ ~hNil
    /\ cause.err = "nil"
    /\ retStats.Sent # <<>>
    /\ Count(trace, "SetRobust(false)") = 1

\* --- fbb proposals

Sorted == prop.fn = "sortProposals" /\ prop.done

\* The elements of s as a bag.
BagOf(s) == [x \in Range(s) |-> Count(s, x)]

\* C12: after sortProposals the list is a permutation of the one passed
\* in, and for all i < j the precedence at i is at most that at j; with
\* equal precedence the compressed size at i is at most that at j; with
\* both equal the MID at i is at most that at j.
C12_SortLaw ==
    Sorted =>
        /\ Len(prop.out) = Len(prop.arg)
        /\ BagOf(prop.out) = BagOf(prop.arg)
        /\ \A i, j \in 1..Len(prop.out) :
              i < j =>
                 LET a == prop.out[i]
                     b == prop.out[j]
                 IN  /\ precedence(a.title) <= precedence(b.title)
                     /\ precedence(a.title) = precedence(b.title) =>
                           /\ a.compressedSize <= b.compressedSize
                           /\ a.compressedSize = b.compressedSize =>
                                 a.mid <= b.mid

\* A batch that arrives in the opposite order, with a tie on precedence
\* and size that the MID breaks, leaves in the order of the law.
C12_Witness ==
    /\ Sorted
    /\ Len(prop.arg) = 3
    /\ prop.out # prop.arg
    /\ precedence(prop.arg[1].title) > precedence(prop.arg[3].title)
    /\ precedence(prop.out[2].title) = precedence(prop.out[3].title)
    /\ prop.out[2].compressedSize = prop.out[3].compressedSize
    /\ prop.out[2].mid < prop.out[3].mid
    /\ prop.arg[1].mid > prop.arg[2].mid

PrecedenceOf == prop.fn = "precedence" /\ prop.done

\* C13 as the code has it: the markers of Immediate and Priority are
\* "//WL2K O/" and "//WL2K P/", as that of Flash is "//WL2K Z/"; the result
\* is the lowest class whose marker the title contains, Routine without one.
C13_FullMarkers ==
    PrecedenceOf =>
        LET classes ==
                {Routine}
                \cup (IF Contains(prop.arg, FlashMarker)
                      THEN {Flash} ELSE {})
                \cup (IF Contains(prop.arg, ImmediateMarker)
                      THEN {Immediate} ELSE {})
                \cup (IF Contains(prop.arg, PriorityMarker)
                      THEN {Priority} ELSE {})
        IN  /\ prop.out \in classes
            /\ \A c \in classes : prop.out <= c

\* A title with the markers of Priority and of Flash is Flash.
C13_Witness ==
    /\ PrecedenceOf
    /\ Contains(prop.arg, PriorityMarker)
    /\ Contains(prop.arg, FlashMarker)
    /\ prop.arg[1] = "//WL2K "
    /\ prop.arg[2] = "P/"
    /\ prop.out = Flash

\* C13 as stated: "O/" alone marks Immediate and "P/" alone Priority.
C13_BareMarkers ==
    PrecedenceOf =>
        prop.out =
            IF Contains(prop.arg, FlashMarker) THEN Flash
            ELSE IF Contains(prop.arg, <<"O/">>) THEN Immediate
            ELSE IF Contains(prop.arg, <<"P/">>) THEN Priority
            ELSE Routine

Parsed == prop.fn = "parseProposal" /\ prop.done

GotOutbound == dir.op = "GetOutbound"

\* The MIDs of the messages GetOutbound returned, in order.
ReturnedMIDs == [i \in 1..Len(dir.ret) |-> dir.ret[i].mid]

C19_DialOnDemand ==
    /\ rig.pc = "doCmd" => (rig.conn # "nil" /\ rig.tcpConn # "nil")
    /\ rig.pc # "panic"
    /\ (rig.pc = "doCmd" /\ rig.dials > 0) => rig.server = "listening"

\* --- ax25.DialKenwood

\* DialKenwood has got through both waits and returned.
KwReturnedFromConnect ==
    kw.pc = "returned" /\ kw.dialW # "idle"

\* C20: DialKenwood returns a connection with a nil error only once its
\* dial worker has read *** CONNECTED to, and when the worker has read
\* *** DISCONNECTED or got a read error it returns a connect failed error
\* without a connection.
C20_ConnectAcknowledged ==
    KwReturnedFromConnect =>
        /\ (kw.err = "nil" /\ kw.conn # "nil") => kw.dialW = "connected"
        /\ kw.dialW \in {"disconnected", "read error"} =>
              (kw.err = "connect failed" /\ kw.conn = "nil")

\* --- the turn loop

\* C21: the turns of an Exchange call alternate between outbound and
\* inbound; once quitSent or quitReceived is true or the call has returned
\* no further turn is handled; and a started call returns nil only from
\* the exit of the loop, after a turn that made the session Done.
C21_TurnLoop ==
    /\ [](/\ \A i \in 1..(Len(Turns) - 1) : Turns[i] # Turns[i + 1]
          /\ (ReturnedStarted /\ retErr = "nil") =>
                (Done /\ cause.phase = "close" /\ Turns # <<>>)
          /\ (Returned /\ retErr = "nil") => Done)
    /\ [][(Done \/ pc = "idle") => Len(Turns') <= Len(Turns)]_vars

\* A clean quit after three turns.
C21_Witness ==
    /\ ReturnedStarted
    /\ retErr = "nil"
    /\ Len(Turns) = 3
    /\ quitSent
    /\ ~quitReceived

\* --- Session.outbound

OutboundDone == prop.fn = "outbound" /\ prop.done

\* The MIDs of the messages of GetOutbound that are valid and whose
\* proposal can be built.
GoodMIDs ==
    {prop.arg[i].mid : i \in {j \in 1..Len(prop.arg) :
                                prop.arg[j].check = "ok"}}

\* C22: outbound returns one proposal for each message of GetOutbound
\* that passes Validate and has a proposal, and none for another; the
\* proposals are in the order of sortProposals; without a handler there
\* are none.
C22_Outbound ==
    OutboundDone =>
        /\ prop.h = "nil" => prop.out = <<>>
        /\ {prop.out[i].mid : i \in 1..Len(prop.out)} = GoodMIDs
        /\ Len(prop.out) = Cardinality(GoodMIDs)
        /\ \A i \in 1..Len(prop.out) :
              \E j \in 1..Len(prop.arg) :
                 /\ prop.arg[j].mid = prop.out[i].mid
                 /\ prop.arg[j].title = prop.out[i].title
        /\ \A i, j \in 1..Len(prop.out) :
              i < j =>
                 LET a == prop.out[i]
                     b == prop.out[j]
                 IN  /\ precedence(a.title) <= precedence(b.title)
                     /\ precedence(a.title) = precedence(b.title) =>
                           a.mid <= b.mid

\* An invalid message between two valid ones, which change places.
C22_Witness ==
    /\ OutboundDone
    /\ Len(prop.arg) = 3
    /\ prop.arg[2].check = "invalid"
    /\ Len(prop.out) = 2
    /\ prop.out[1].mid = prop.arg[3].mid
    /\ prop.out[2].mid = prop.arg[1].mid

\* C23: a MID given to SetDeferred is in the deferred set, where it stays
\* until Prepare; no GetOutbound, with or without forwarders, returns a
\* message of the deferred set; Prepare leaves the set empty.
C23_DeferredKeptBack ==
    /\ [](/\ GotOutbound => Range(ReturnedMIDs) \cap dir.dfr = {}
          /\ dir.op = "Prepare" => dir.dfr = {})
    /\ [][/\ (dir'.op = "SetDeferred" /\ dir'.ret = "nil") =>
                dir'.arg \in dir'.dfr
          /\ dir'.op # "Prepare" => dir.dfr \subseteq dir'.dfr]_vars

\* With a forwarder that is the one receiver of both messages of the
\* outbox, the deferred one is kept back and the other returned.
C23_Witness ==
    /\ GotOutbound
    /\ Len(dir.arg) = 1
    /\ dir.out = MIDs
    /\ dir.dfr = {1}
    /\ dir.files[1].to = {dir.arg[1]}
    /\ ReturnedMIDs = <<2>>

\* C24: SetSent of a message of the outbox, rejected or not, leaves its
\* MID in the sent folder and not in the outbox, with as many messages in
\* the two folders together as before; a MID in the sent folder stays
\* there, and GetOutbound returns no message of the sent folder.
C24_SetSentMoves ==
    /\ [](/\ (dir.op = "SetSent" /\ dir.ret = "nil") =>
                (dir.arg[1] \in dir.sent /\ dir.arg[1] \notin dir.out)
          /\ GotOutbound => Range(ReturnedMIDs) \cap dir.sent = {})
    /\ [][/\ dir.sent \subseteq dir'.sent
          /\ (dir'.op = "SetSent" /\ dir'.ret = "nil") =>
                Cardinality(dir'.out) + Cardinality(dir'.sent)
                   = Cardinality(dir.out) + Cardinality(dir.sent)]_vars

\* A message sent as rejected, the other still in the outbox.
C24_Witness ==
    /\ dir.op = "SetSent"
    /\ dir.ret = "nil"
    /\ dir.arg = <<1, TRUE>>
    /\ dir.sent = {1}
    /\ dir.out = {2}

\* C29: no message GetOutbound returns has one of the headers X-P2POnly,
\* X-FilePath and X-Unread, with forwarders or without.
C29_NoPrivateHeaders ==
    GotOutbound =>
        \A i \in 1..Len(dir.ret) : dir.ret[i].hdrs \cap PrivateHeaders = {}

\* --- closing the connection

\* C26: an Exchange call that started an exchange has called conn.Close
\* once when it returns, after a clean quit as after an error.
C26_ClosedOnce ==
    ReturnedStarted => Count(trace, "Close") = 1

\* --- parseProposal at run time

\* C27: parseProposal returns for every line, with nil or an error and no
\* run-time failure; for the empty line and for a line that does not
\* start with F it returns nil and leaves the proposal as it was.
C27_NoRunTimeFailure ==
    Parsed =>
        /\ ~prop.out.panic
        /\ (prop.arg = <<>> \/ prop.arg[1] # "F") =>
              (prop.out.err = "nil" /\ prop.out.prop = ZeroProposal)

\* --- TCPRig.cmd

\* C25: every attempt of cmd ends with the response and error of doCmd,
\* there are at most 3 of them, the last one's result is what cmd returns,
\* and the connection is dropped after io.EOF or a net.Error only.
C25_RetryLoop ==
    [][rig.pc = "doCmd" =>
          /\ rig'.pc \in {"idle", "loop"}
          /\ rig'.i = rig.i + 1
          /\ rig'.i <= 3
          /\ rig'.pc = "idle" <=> rig'.err = "nil"
          /\ (rig'.conn = "nil" /\ rig.conn # "nil") =>
                rig'.err \in {"EOF", "net.Error"}]_vars

\* --- KenwoodConn.Close

\* C28: Close on an open connection comes to its end: the wait for the
\* line with DISCONN is over at some time and the underlying connection
\* closed, also when the stream is at EOF or gives read errors before
\* such a line.
C28_CloseTerminates ==
    <>(kw.pc = "closed" /\ kw.conn = "closed")

====
